---- MODULE Spec2Model ----
(***************************************************************************)
(* Routing and classification engine of the group-chat <-> agent bridge:   *)
(* the LLMJudge state machine (src/judge.ts, held in src/unnamed/part_002) *)
(* and the message router of src/watcher.ts.                               *)
(*                                                                         *)
(* Texts are sequences of UTF-16 code units, each written as a one-        *)
(* character string; the code unit U+2014 is written "EMDASH".  A JS null  *)
(* text is the one-element sequence Null, whose element is no code unit.   *)
(***************************************************************************)
EXTENDS Integers, Sequences, FiniteSets, TLC

VARIABLES
  state,          \* LLMJudge.state                      (part_002:41)
  messageBuffer,  \* rolling buffer of group messages    (watcher.ts:11)
  recentlySent,   \* Set<string> of fingerprints         (watcher.ts:23)
  timers,         \* pending setTimeout callbacks, in creation order
  mainpc,         \* position of main()                  (watcher.ts:106-125)
  handlers,       \* live handleMessage invocations, by event number
  nextId,         \* number given to the next handleMessage invocation
  sends,          \* every sdk.send issued, in order
  call,           \* the last direct call made on an LLMJudge
  clock,          \* the time in ms, the due times of the pending timers, and
                  \* the calls made on the loop guard so far
  proc            \* the process: which identifiers are configured, the SIGINT
                  \* handlers under way, the shutdown steps done, the exit code

vars ==
  << state, messageBuffer, recentlySent, timers, mainpc, handlers, nextId,
     sends, call, clock, proc >>

-----------------------------------------------------------------------------
(* Bounds of the model *)

\* inbound events that pass the filters of handleMessage in one run (events
\* the router drops are not counted: any number of them may arrive)
MaxEvents == 2

\* handleMessage invocations suspended at an await at one time
MaxLive == 2

\* the same count of events for an adapter that delivers one event at a time
MaxSerialEvents == 3

\* tokens in one oracle response
MaxRawLen == 4

\* group messages delivered one after another to fill the buffer
MaxPushes == 25

\* SIGINT signals the process gets
MaxSignals == 2

\* events delivered while the life of the process is followed
MaxLifeEvents == 1

\* markAsSent calls made on the loop guard alone
MaxMarks == 3

\* steps of the clock, each of half the expiry delay
MaxTicks == 6

-----------------------------------------------------------------------------
(* String primitives *)

Null == << "null" >>

Whitespace == { " ", "\n", "\t" }

\* String.prototype.slice(0, n)
Slice(s, n) == SubSeq(s, 1, IF Len(s) < n THEN Len(s) ELSE n)

RECURSIVE TrimStart(_)
TrimStart(s) ==
  IF s # << >> /\ Head(s) \in Whitespace THEN TrimStart(Tail(s)) ELSE s

RECURSIVE TrimEnd(_)
TrimEnd(s) ==
  IF s # << >> /\ s[Len(s)] \in Whitespace
    THEN TrimEnd(SubSeq(s, 1, Len(s) - 1))
    ELSE s

\* String.prototype.trim()
Trim(s) == TrimEnd(TrimStart(s))

\* String.prototype.startsWith(p)
StartsWith(s, p) == Len(s) >= Len(p) /\ SubSeq(s, 1, Len(p)) = p

\* String.prototype.includes(p)
Includes(s, p) ==
  \E i \in 1..(Len(s) - Len(p) + 1) : SubSeq(s, i, i + Len(p) - 1) = p

RECURSIVE Join(_, _)
\* Array.prototype.join(sep)
Join(lines, sep) ==
  IF lines = << >> THEN << >>
  ELSE IF Len(lines) = 1 THEN lines[1]
  ELSE lines[1] \o sep \o Join(Tail(lines), sep)

-----------------------------------------------------------------------------
(* LLMJudge: src/judge.ts *)

JudgeStates == { "IDLE", "PLANNING" }
JudgeActions == { "FORWARD", "IGNORE", "CONCLUDE" }
Directions == { "inbound", "outbound" }

(* An oracle response is a sequence of tokens: the two brace characters, a   *)
(* run of prose without braces, and key/value pairs as they appear inside a  *)
(* JSON object ("action":"FORWARD", "action":"MAYBE", "other":1).            *)
ActionPairs ==
  { "action:FORWARD", "action:IGNORE", "action:CONCLUDE", "action:MAYBE" }
PairTokens == ActionPairs \cup { "other:1" }
RawAlphabet == { "{", "}", "prose" } \cup PairTokens

\* the value of the "action" key of a one-pair object; "undefined" if absent
PairAction(tok) ==
  CASE tok = "action:FORWARD"  -> "FORWARD"
    [] tok = "action:IGNORE"   -> "IGNORE"
    [] tok = "action:CONCLUDE" -> "CONCLUDE"
    [] tok = "action:MAYBE"    -> "MAYBE"
    [] OTHER                   -> "undefined"

RawResponses == UNION { [1..n -> RawAlphabet] : n \in 0..MaxRawLen }

Returned(v) == [kind |-> "return", value |-> v]
Thrown(e) == [kind |-> "throw", value |-> e]

\* raw.match(/\{[^}]*\}/): the text between the first "{" and the first "}"
\* after it (braces excluded), or Null when nothing matches
JsonMatch(raw) ==
  LET opens == { i \in 1..Len(raw) : raw[i] = "{" }
  IN  IF opens = {} THEN Null
      ELSE LET i == CHOOSE k \in opens : \A m \in opens : k <= m
               closes == { j \in (i + 1)..Len(raw) : raw[j] = "}" }
           IN  IF closes = {} THEN Null
               ELSE LET j == CHOOSE k \in closes : \A m \in closes : k <= m
                    IN  SubSeq(raw, i + 1, j - 1)

\* JSON.parse of "{" body "}" followed by the read of .action
ParseAction(body) ==
  IF body = << >> THEN Returned("undefined")
  ELSE IF Len(body) = 1 /\ body[1] \in PairTokens
    THEN Returned(PairAction(body[1]))
    ELSE Thrown("SyntaxError")

\* the part of callLLM that follows the oracle's answer
CallLLM(raw) ==
  LET jsonMatch == JsonMatch(raw)
  IN  IF jsonMatch = Null THEN Thrown("unparseable") ELSE ParseAction(jsonMatch)

\* a prompt that names the inbound direction whatever it is given
PromptAlwaysInbound(direction, s, message) ==
  << "DIRECTION: ", "inbound", "\nSTATE: ", s, "\n\nMESSAGE: ", message >>

\* the user turn of messages.create, as the pieces of its template
Prompt(direction, s, message) ==
  << "DIRECTION: ", direction, "\nSTATE: ", s, "\n\nMESSAGE: ", message >>

\* what messages.create settles to: a response text, or a rejection
OracleReplies ==
  { [ok |-> TRUE, raw |-> r] : r \in RawResponses }
    \cup { [ok |-> FALSE, raw |-> << >>] }

LLMOutcome(reply) ==
  IF reply.ok THEN CallLLM(reply.raw) ELSE Thrown("transport")

\* every outcome callLLM can settle to
OracleOutcomes == { LLMOutcome(reply) : reply \in OracleReplies }

\* a transition that treats every action but FORWARD as the end of planning
ApplyTransitionResets(s, action) ==
  IF action = "FORWARD" THEN "PLANNING" ELSE "IDLE"

\* a transition in which FORWARD switches between the two states
ApplyTransitionToggle(s, action) ==
  IF action = "FORWARD" THEN (IF s = "IDLE" THEN "PLANNING" ELSE "IDLE")
  ELSE IF s = "PLANNING" /\ action = "CONCLUDE" THEN "IDLE"
  ELSE s

ApplyTransition(s, action) ==
  IF s = "IDLE" /\ action = "FORWARD" THEN "PLANNING"
  ELSE IF s = "PLANNING" /\ action = "CONCLUDE" THEN "IDLE"
  ELSE s

\* a classify that falls back to IDLE when callLLM throws
ClassifyStateResetOnError(s, outcome) ==
  IF outcome.kind = "return" THEN ApplyTransition(s, outcome.value) ELSE "IDLE"

\* the state classify leaves behind, given what callLLM settled to
ClassifyState(s, outcome) ==
  IF outcome.kind = "return" THEN ApplyTransition(s, outcome.value) ELSE s

-----------------------------------------------------------------------------
(* Literals of src/watcher.ts *)

MAX_BUFFER == 20

\* the delay of the setTimeout in markAsSent, in ms
EXPIRY_MS == 10000

FINGERPRINT_LEN == 100

SYSTEM_PROMPT ==
  <<
    "Y", "o", "u", " ", "a", "r", "e", " ", "K", "a", "d", "e", "n", ",", " ",
    "a", " ", "c", "h", "i", "l", "l", " ", "f", "r", "i", "e", "n", "d", " ",
    "i", "n", " ", "a", " ", "g", "r", "o", "u", "p", " ", "c", "h", "a", "t",
    " ", "h", "e", "l", "p", "i", "n", "g", " ", "p", "l", "a", "n", " ", "o",
    "u", "t", "i", "n", "g", "s", ".", " ", "I", "'", "l", "l", " ", "f", "o",
    "r", "w", "a", "r", "d", " ", "y", "o", "u", " ", "m", "e", "s", "s", "a",
    "g", "e", "s", " ", "f", "r", "o", "m", " ", "t", "h", "e", " ", "g", "r",
    "o", "u", "p", " ", "c", "h", "a", "t", " ", "a", "s", " ", "t", "h", "e",
    "y", " ", "c", "o", "m", "e", " ", "i", "n", ".", " ", "R", "e", "s", "p",
    "o", "n", "d", " ", "n", "a", "t", "u", "r", "a", "l", "l", "y", " ", "a",
    "s", " ", "K", "a", "d", "e", "n", ".", " ", "I", "f", " ", "t", "h", "e",
    "y", "'", "r", "e", " ", "p", "l", "a", "n", "n", "i", "n", "g", " ", "s",
    "o", "m", "e", "t", "h", "i", "n", "g", ",", " ", "h", "e", "l", "p", " ",
    "c", "o", "o", "r", "d", "i", "n", "a", "t", "e", ".", " ", "I", "f", " ",
    "y", "o", "u", " ", "h", "a", "v", "e", " ", "e", "n", "o", "u", "g", "h",
    " ", "i", "n", "f", "o", " ", "(", "f", "o", "o", "d", " ", "t", "y", "p",
    "e", ",", " ", "t", "i", "m", "e", ",", " ", "a", "r", "e", "a", ")", ",",
    " ", "u", "s", "e", " ", "y", "o", "u", "r", " ", "r", "e", "s", "t", "a",
    "u", "r", "a", "n", "t", " ", "s", "e", "a", "r", "c", "h", " ", "t", "o",
    "o", "l", "s", ".", " ", "K", "e", "e", "p", " ", "i", "t", " ", "c", "a",
    "s", "u", "a", "l", " ", "a", "n", "d", " ", "s", "h", "o", "r", "t", " ",
    "EMDASH", " ", "y", "o", "u", "'", "r", "e", " ", "t", "e", "x", "t", "i",
    "n", "g", " ", "f", "r", "i", "e", "n", "d", "s", ",", " ", "n", "o", "t",
    " ", "w", "r", "i", "t", "i", "n", "g", " ", "a", "n", " ", "e", "m", "a",
    "i", "l", "."
  >>

TranscriptHeader ==
  <<
    "H", "e", "r", "e", "'", "s", " ", "t", "h", "e", " ", "l", "a", "t", "e",
    "s", "t", " ", "g", "r", "o", "u", "p", " ", "c", "h", "a", "t", " ", "c",
    "o", "n", "v", "e", "r", "s", "a", "t", "i", "o", "n", ":", "\n", "\n"
  >>

MostRecentLead ==
  <<
    "\n", "\n", "T", "h", "e", " ", "m", "o", "s", "t", " ", "r", "e", "c",
    "e", "n", "t", " ", "m", "e", "s", "s", "a", "g", "e", " ", "i", "s", " ",
    "f", "r", "o", "m", " "
  >>


-----------------------------------------------------------------------------
(* Configuration: src/group-chat.ts *)

\* process.env.GROUP_CHAT_ID, here "chat1"
GROUP_CHAT_ID == << "c", "h", "a", "t", "1" >>

\* process.env.POKE_CONTACT_ID, here "+15"
POKE_CONTACT_ID == << "+", "1", "5" >>

ChatPrefix == << "c", "h", "a", "t" >>
GroupSendPrefix == << "i", "M", "e", "s", "s", "a", "g", "e", ";", "+", ";" >>
DMPrefix == << "i", "M", "e", "s", "s", "a", "g", "e", ";", "-", ";" >>

\* a relay that goes to the agent's contact
GroupSendIdAgent == POKE_CONTACT_ID

\* the destination sendToGroup hands to sdk.send
GroupSendId ==
  IF StartsWith(GROUP_CHAT_ID, ChatPrefix)
    THEN GroupSendPrefix \o GROUP_CHAT_ID
    ELSE GROUP_CHAT_ID

\* the destination sendToPoke hands to sdk.send
PokeSendId == POKE_CONTACT_ID

-----------------------------------------------------------------------------
(* Loop prevention: src/watcher.ts *)

\* a fingerprint taken without trimming
FingerprintNoTrim(text) == Slice(text, FINGERPRINT_LEN)

\* the key of markAsSent and wasSentByUs: text.trim().slice(0, 100)
Fingerprint(text) == Slice(Trim(text), FINGERPRINT_LEN)

\* a markAsSent whose registration has not happened when the send is issued
MarkAsSentLater(sent, text) == sent

\* recentlySent.add(key) of markAsSent
MarkAsSent(sent, text) == sent \cup { Fingerprint(text) }

\* the setTimeout of markAsSent: timers of one delay fire in creation order
ArmTimer(pending, text) == Append(pending, Fingerprint(text))

\* an expiry callback that leaves the set as it is
ExpireNothing(sent, key) == sent

\* the callback of the timer: recentlySent.delete(key)
Expire(sent, key) == sent \ { key }

WasSentByUs(sent, text) == Fingerprint(text) \in sent

IsPokeDM(chatId) ==
  IF POKE_CONTACT_ID = << >> THEN FALSE ELSE Includes(chatId, POKE_CONTACT_ID)

-----------------------------------------------------------------------------
(* Inbound events *)

Sender == << "A" >>

BlankText == << " ", "\n" >>

\* a message long enough to fill the fingerprint of every forward that
\* starts with it
LongTextLen == 60
LongText == [i \in 1..LongTextLen |-> "x"]

PokeDMChat == DMPrefix \o POKE_CONTACT_ID
OtherChat == << "c", "h", "a", "t", "2" >>
\* the direct chat with another contact, whose number starts with the digits
\* of the agent's
LookalikeChat == DMPrefix \o POKE_CONTACT_ID \o << "5" >>

ChatIds == { GROUP_CHAT_ID, PokeDMChat, OtherChat, LookalikeChat }

\* what the adapter can deliver: fresh texts, and a read-back of the text
\* sent last
Texts(sent) ==
  { Null, << >>, BlankText, LongText }
    \cup { sent[i].text : i \in { Len(sent) } \ { 0 } }

Messages(sent) ==
  { [sender |-> Sender, text |-> t, chatId |-> c, isFromMe |-> f] :
      t \in Texts(sent), c \in ChatIds, f \in BOOLEAN }

\* a test that takes white space for text
IsBlankNoTrim(text) == text = Null \/ text = << >>

\* !msg.text || msg.text.trim() === ""
IsBlank(text) == text = Null \/ text = << >> \/ Trim(text) = << >>

-----------------------------------------------------------------------------
(* handleMessage: src/watcher.ts *)

\* messageBuffer.push(...) followed by the eviction loop
RECURSIVE Evict(_)
\* an eviction that drops the newest entries instead of the oldest
EvictNewest(buf) ==
  IF Len(buf) > MAX_BUFFER THEN SubSeq(buf, 1, MAX_BUFFER) ELSE buf

Evict(buf) == IF Len(buf) > MAX_BUFFER THEN Evict(Tail(buf)) ELSE buf

\* a push that records nothing
PushBufferNothing(buf, msg) == buf

PushBuffer(buf, msg) ==
  Evict(Append(buf, [sender |-> msg.sender, text |-> msg.text]))

RenderEntry(m) == m.sender \o << ":", " " >> \o m.text

Transcript(buf) ==
  Join([i \in 1..Len(buf) |-> RenderEntry(buf[i])], << "\n" >>)

\* a forward that carries the triggering message without the transcript
PokeMessageLatestOnly(buf, msg) ==
  TranscriptHeader \o MostRecentLead
    \o msg.sender \o << ":", " ", "\"" >> \o msg.text \o << "\"" >>

PokeMessage(buf, msg) ==
  TranscriptHeader \o Transcript(buf) \o MostRecentLead
    \o msg.sender \o << ":", " ", "\"" >> \o msg.text \o << "\"" >>

\* a filter with its test the wrong way round
ShouldForwardInverted(action) == action = "IGNORE"

\* a filter that lets every classified message through
ShouldForwardAlways(action) == TRUE

\* `if (action === "IGNORE") return;`
ShouldForward(action) == action # "IGNORE"

\* one sdk.send, as issued: marked tells whether the fingerprint of the text
\* was in recentlySent when sdk.send was called
SendRecord(to, text, by, sent) ==
  [to |-> to, text |-> text, by |-> by, marked |-> WasSentByUs(sent, text)]

\* a relay that sends the message as the transcript renders it
RelayRendered(msg) == RenderEntry(msg)

\* what a message of the agent is relayed as: sendToGroup(msg.text)
RelayText(msg) == msg.text

\* a routing that handles a message of the agent as a group message
RoutePokeAsGroup(msg, sent) ==
  IF IsBlank(msg.text) THEN "blank"
  ELSE IF msg.isFromMe THEN "self"
  ELSE IF msg.chatId = GROUP_CHAT_ID \/ IsPokeDM(msg.chatId) THEN "group"
  ELSE "none"

\* a routing that does not look at isFromMe
RouteNoSelfCheck(msg, sent) ==
  IF IsBlank(msg.text) THEN "blank"
  ELSE IF msg.chatId = GROUP_CHAT_ID THEN "group"
  ELSE IF IsPokeDM(msg.chatId)
    THEN IF WasSentByUs(sent, msg.text) THEN "echo" ELSE "poke"
    ELSE "none"

\* the first branch of handleMessage the event takes
Route(msg, sent) ==
  IF IsBlank(msg.text) THEN "blank"
  ELSE IF msg.isFromMe THEN "self"
  ELSE IF msg.chatId = GROUP_CHAT_ID THEN "group"
  ELSE IF IsPokeDM(msg.chatId)
    THEN IF WasSentByUs(sent, msg.text) THEN "echo" ELSE "poke"
    ELSE "none"

Live == { "awaitLLM", "classified", "awaitSend" }
Settled == { "returned", "rejected" }

\* an invocation that returned before its first await is kept by its route
\* alone
NoMsg == [sender |-> << >>, text |-> Null, chatId |-> << >>, isFromMe |-> FALSE]

NoOutcome == [kind |-> "none", value |-> "none"]

\* an invocation that classifies its message as one of the agent's
HandlerOutbound(msg, route, pc, entryState) ==
  [msg |-> msg, route |-> route, pc |-> pc, direction |-> "outbound",
   entryState |-> entryState, outcome |-> NoOutcome]

Handler(msg, route, pc, entryState) ==
  [msg |-> msg, route |-> route, pc |-> pc, direction |-> "inbound",
   entryState |-> entryState, outcome |-> NoOutcome]

\* no settled invocation is waiting to be collected
Collected == \A h \in DOMAIN handlers : handlers[h].pc \notin Settled

LiveHandlers == { h \in DOMAIN handlers : handlers[h].pc \in Live }

Put(h, rec) == [k \in DOMAIN handlers \cup { h } |-> IF k = h THEN rec ELSE handlers[k]]

\* no prompt was given to the oracle
NoPrompt == << >>

JudgeCall(op, pre, direction, reply, outcome) ==
  [op |-> op, pre |-> pre, direction |-> direction, reply |-> reply,
   outcome |-> outcome, prompt |-> NoPrompt]

NoReply == [ok |-> TRUE, raw |-> << >>]

\* the exit code of a process that has not exited
RUNNING == -1

\* a configured process that got no signal
NoProc ==
  [group |-> TRUE, poke |-> TRUE, sigs |-> << >>, steps |-> << >>, exit |-> RUNNING]

\* the clock at start: time 0, no timer pending, no call made
NoClock == [now |-> 0, due |-> << >>, marks |-> {}, op |-> "none", text |-> Null]

Init ==
  /\ state = "IDLE"
  /\ messageBuffer = << >>
  /\ recentlySent = {}
  /\ timers = << >>
  /\ mainpc = "start"
  /\ handlers = << >>
  /\ nextId = 1
  /\ sends = << >>
  /\ call = JudgeCall("new", "IDLE", "inbound", NoReply, NoOutcome)
  /\ clock = NoClock
  /\ proc = NoProc

\* main(): markAsSent(SYSTEM_PROMPT); await sendToPoke(SYSTEM_PROMPT)
MainStart ==
  /\ mainpc = "start"
  /\ recentlySent' = MarkAsSent(recentlySent, SYSTEM_PROMPT)
  /\ timers' = ArmTimer(timers, SYSTEM_PROMPT)
  /\ sends' = Append(sends, SendRecord(PokeSendId, SYSTEM_PROMPT, 0, recentlySent'))
  /\ mainpc' = "awaitSend"
  /\ UNCHANGED << state, messageBuffer, handlers, nextId, call, clock, proc >>

\* the send settles; on success main goes on to sdk.startWatching
MainSendDone ==
  /\ mainpc = "awaitSend"
  /\ mainpc' = "watching"
  /\ UNCHANGED << state, messageBuffer, recentlySent, timers, handlers, nextId,
                  sends, call, clock, proc >>

\* the send rejects: main().catch logs and calls process.exit(1)
MainSendFail ==
  /\ mainpc = "awaitSend"
  /\ mainpc' = "exited"
  /\ proc' = [proc EXCEPT !.exit = 1]
  /\ UNCHANGED << state, messageBuffer, recentlySent, timers, handlers, nextId,
                  sends, call, clock >>

\* the adapter calls onMessage: handleMessage runs up to its first await
DeliverWithin(msg, maxEvents, maxLive) ==
  /\ mainpc = "watching"
  /\ Collected
  /\ LET route == Route(msg, recentlySent)
         h == nextId
     IN  /\ route \in { "group", "poke" } =>
              /\ nextId <= maxEvents
              /\ Cardinality(LiveHandlers) < maxLive
         /\ nextId' = IF route \in { "group", "poke" } THEN nextId + 1 ELSE nextId
         /\ CASE route = "group" ->
                   /\ messageBuffer' = PushBuffer(messageBuffer, msg)
                   /\ handlers' = Put(h, Handler(msg, route, "awaitLLM", state))
                   /\ UNCHANGED << recentlySent, timers, sends >>
              [] route = "poke" ->
                   /\ recentlySent' = MarkAsSent(recentlySent, msg.text)
                   /\ timers' = ArmTimer(timers, msg.text)
                   /\ sends' = Append(sends,
                        SendRecord(GroupSendId, RelayText(msg), h, recentlySent'))
                   /\ handlers' = Put(h, Handler(msg, route, "awaitSend", state))
                   /\ UNCHANGED messageBuffer
              [] OTHER ->
                   /\ handlers' = Put(h, Handler(NoMsg, route, "returned", state))
                   /\ UNCHANGED << messageBuffer, recentlySent, timers, sends >>
  /\ UNCHANGED << state, mainpc, call, clock, proc >>

\* an adapter that calls onMessage without waiting for earlier invocations
Deliver(msg) == DeliverWithin(msg, MaxEvents, MaxLive)

\* an adapter that awaits each invocation before it calls onMessage again
DeliverSerial(msg) == DeliverWithin(msg, MaxSerialEvents, 1)

\* messages.create settles: the rest of callLLM, then applyTransition
LLMSettle(h, outcome) ==
  /\ mainpc = "watching"
  /\ Collected
  /\ h \in DOMAIN handlers
  /\ handlers[h].pc = "awaitLLM"
  /\ state' = ClassifyState(state, outcome)
  /\ handlers' = [handlers EXCEPT
       ![h].outcome = outcome,
       ![h].pc = IF outcome.kind = "throw" THEN "rejected" ELSE "classified"]
  /\ UNCHANGED << messageBuffer, recentlySent, timers, mainpc, nextId, sends, call, clock, proc >>

\* handleMessage continues after `await judge.classify(...)`
Resume(h) ==
  /\ mainpc = "watching"
  /\ Collected
  /\ h \in DOMAIN handlers
  /\ handlers[h].pc = "classified"
  /\ IF ~ShouldForward(handlers[h].outcome.value)
       THEN /\ handlers' = [handlers EXCEPT ![h].pc = "returned"]
            /\ UNCHANGED << recentlySent, timers, sends >>
       ELSE LET pokeMessage == PokeMessage(messageBuffer, handlers[h].msg)
            IN  /\ recentlySent' = MarkAsSent(recentlySent, pokeMessage)
                /\ timers' = ArmTimer(timers, pokeMessage)
                /\ sends' = Append(sends,
                     SendRecord(PokeSendId, pokeMessage, h, recentlySent'))
                /\ handlers' = [handlers EXCEPT ![h].pc = "awaitSend"]
  /\ UNCHANGED << state, messageBuffer, mainpc, nextId, call, clock, proc >>

\* a handler that sends the text once more when sdk.send fails
SendSettleRetry(h, ok) ==
  /\ mainpc = "watching"
  /\ Collected
  /\ h \in DOMAIN handlers
  /\ handlers[h].pc = "awaitSend"
  /\ handlers' = [handlers EXCEPT ![h].pc = "returned"]
  /\ sends' = IF ok THEN sends
              ELSE Append(sends, sends[CHOOSE i \in 1..Len(sends) : sends[i].by = h])
  /\ UNCHANGED << state, messageBuffer, recentlySent, timers, mainpc, nextId,
                  call, clock, proc >>

\* sdk.send settles; handleMessage returns, or the rejection propagates
SendSettle(h, ok) ==
  /\ mainpc = "watching"
  /\ Collected
  /\ h \in DOMAIN handlers
  /\ handlers[h].pc = "awaitSend"
  /\ handlers' = [handlers EXCEPT ![h].pc = IF ok THEN "returned" ELSE "rejected"]
  /\ UNCHANGED << state, messageBuffer, recentlySent, timers, mainpc, nextId,
                  sends, call, clock, proc >>

\* an adapter under which a rejected invocation ends the process
CollectOrCrash(h) ==
  /\ h \in DOMAIN handlers
  /\ handlers[h].pc \in Settled
  /\ handlers' = [k \in DOMAIN handlers \ { h } |-> handlers[k]]
  /\ mainpc' = IF handlers[h].pc = "rejected" THEN "exited" ELSE mainpc
  /\ UNCHANGED << state, messageBuffer, recentlySent, timers, nextId,
                  sends, call, clock, proc >>

\* the adapter observes that the promise of one invocation has settled
Collect(h) ==
  /\ h \in DOMAIN handlers
  /\ handlers[h].pc \in Settled
  /\ handlers' = [k \in DOMAIN handlers \ { h } |-> handlers[k]]
  /\ UNCHANGED << state, messageBuffer, recentlySent, timers, mainpc, nextId,
                  sends, call, clock, proc >>

\* the oldest pending timer fires: recentlySent.delete(key).  A timer is a
\* task of the event loop: it does not run between the settling of classify
\* and the continuation of handleMessage, which is a microtask.
TimerFire ==
  /\ timers # << >>
  /\ mainpc # "exited"
  /\ Collected
  /\ \A h \in DOMAIN handlers : handlers[h].pc # "classified"
  /\ recentlySent' = Expire(recentlySent, Head(timers))
  /\ timers' = Tail(timers)
  /\ UNCHANGED << state, messageBuffer, mainpc, handlers, nextId, sends, call, clock, proc >>

Routing ==
  \/ MainStart
  \/ MainSendDone
  \/ MainSendFail
  \/ \E h \in DOMAIN handlers, outcome \in OracleOutcomes : LLMSettle(h, outcome)
  \/ \E h \in DOMAIN handlers : Resume(h)
  \/ \E h \in DOMAIN handlers, ok \in BOOLEAN : SendSettle(h, ok)
  \/ \E h \in DOMAIN handlers : Collect(h)
  \/ TimerFire

Next ==
  \/ \E msg \in Messages(sends) : Deliver(msg)
  \/ Routing

Spec == Init /\ [][Next]_vars

NextSerial ==
  \/ \E msg \in Messages(sends) : DeliverSerial(msg)
  \/ Routing

SpecSerial == Init /\ [][NextSerial]_vars

\* the router when every sdk.send succeeds, the oracle answers every call,
\* and every continuation that can run does run
NextFair ==
  \/ \E msg \in Messages(sends) : Deliver(msg)
  \/ MainStart
  \/ MainSendDone
  \/ \E h \in DOMAIN handlers, outcome \in OracleOutcomes : LLMSettle(h, outcome)
  \/ \E h \in DOMAIN handlers : Resume(h)
  \/ \E h \in DOMAIN handlers : SendSettle(h, TRUE)
  \/ \E h \in DOMAIN handlers : Collect(h)
  \/ TimerFire

\* A continuation is held back in the model only while a settled invocation
\* waits to be collected; in the program nothing holds it back, so it runs
\* if it can run again and again.
Fairness ==
  /\ WF_vars(MainSendDone)
  /\ WF_vars(\E h \in DOMAIN handlers : Collect(h))
  /\ \A h \in 1..MaxEvents :
       /\ SF_vars(\E outcome \in OracleOutcomes : LLMSettle(h, outcome))
       /\ SF_vars(Resume(h))
       /\ SF_vars(SendSettle(h, TRUE))

SpecFair == Init /\ [][NextFair]_vars /\ Fairness

-----------------------------------------------------------------------------
(* The LLMJudge alone, driven as its unit tests drive it: the client is a   *)
(* stub whose messages.create settles to one canned reply.                  *)

\* the message the judge is given
JudgeMessage == "hello"

\* a judge that starts in the middle of a planning episode
InitJudgePlanning ==
  /\ state = "PLANNING"
  /\ messageBuffer = << >>
  /\ recentlySent = {}
  /\ timers = << >>
  /\ mainpc = "start"
  /\ handlers = << >>
  /\ nextId = 1
  /\ sends = << >>
  /\ \E reply \in OracleReplies :
        call = JudgeCall("new", "IDLE", "inbound", reply, NoOutcome)
  /\ clock = NoClock
  /\ proc = NoProc

\* a fresh judge on a stubbed client
InitJudge ==
  /\ state = "IDLE"
  /\ messageBuffer = << >>
  /\ recentlySent = {}
  /\ timers = << >>
  /\ mainpc = "start"
  /\ handlers = << >>
  /\ nextId = 1
  /\ sends = << >>
  /\ \E reply \in OracleReplies :
        call = JudgeCall("new", "IDLE", "inbound", reply, NoOutcome)
  /\ clock = NoClock
  /\ proc = NoProc

\* judge.classify(message, direction)
JClassify(direction) ==
  LET outcome == LLMOutcome(call.reply)
  IN  /\ state' = ClassifyState(state, outcome)
      /\ call' = [JudgeCall("classify", state, direction, call.reply, outcome)
                    EXCEPT !.prompt = Prompt(direction, state, JudgeMessage)]
      /\ UNCHANGED << messageBuffer, recentlySent, timers, mainpc, handlers,
                      nextId, sends, clock, proc >>

\* judge.applyTransition(action)
JApplyTransition(action) ==
  /\ state' = ApplyTransition(state, action)
  /\ call' = JudgeCall("applyTransition", state, "inbound", call.reply,
                       Returned(action))
  /\ UNCHANGED << messageBuffer, recentlySent, timers, mainpc, handlers,
                  nextId, sends, clock, proc >>

\* judge.setState(s)
JSetState(s) ==
  /\ state' = s
  /\ call' = JudgeCall("setState", state, "inbound", call.reply, NoOutcome)
  /\ UNCHANGED << messageBuffer, recentlySent, timers, mainpc, handlers,
                  nextId, sends, clock, proc >>

NextJudge ==
  \/ \E direction \in Directions : JClassify(direction)
  \/ \E action \in JudgeActions : JApplyTransition(action)
  \/ \E s \in JudgeStates : JSetState(s)

SpecJudge == InitJudge /\ [][NextJudge]_vars

-----------------------------------------------------------------------------
(* The router fed by a serial adapter with a long run of group messages,    *)
(* each one longer than the one before, none of which is forwarded.         *)

NumberedText(n) == [i \in 1..n |-> "x"]

\* the n-th group message, a blank one, and one sent by ourselves
BufferMessages(n) ==
  { [sender |-> Sender, text |-> NumberedText(n), chatId |-> GROUP_CHAT_ID,
     isFromMe |-> FALSE],
    [sender |-> Sender, text |-> BlankText, chatId |-> GROUP_CHAT_ID,
     isFromMe |-> FALSE],
    [sender |-> Sender, text |-> NumberedText(n), chatId |-> GROUP_CHAT_ID,
     isFromMe |-> TRUE] }

\* the oracle answers IGNORE, or the call fails
BufferOutcomes ==
  { o \in OracleOutcomes : o.kind = "throw" \/ o.value = "IGNORE" }

DeliverBuffer(msg) == DeliverWithin(msg, MaxPushes, 1)

NextBuffer ==
  \/ MainStart
  \/ MainSendDone
  \/ \E msg \in BufferMessages(nextId) : DeliverBuffer(msg)
  \/ \E h \in DOMAIN handlers, outcome \in BufferOutcomes : LLMSettle(h, outcome)
  \/ \E h \in DOMAIN handlers : Resume(h)
  \/ \E h \in DOMAIN handlers : Collect(h)
  \/ TimerFire

SpecBuffer == Init /\ [][NextBuffer]_vars

-----------------------------------------------------------------------------
(* The life of the process: the checks of group-chat.ts when the module is  *)
(* loaded, main, and the SIGINT handler, with one event for the router.     *)

\* the process starts with each identifier set in the environment or not
InitLife ==
  /\ state = "IDLE"
  /\ messageBuffer = << >>
  /\ recentlySent = {}
  /\ timers = << >>
  /\ mainpc = "load"
  /\ handlers = << >>
  /\ nextId = 1
  /\ sends = << >>
  /\ call = JudgeCall("new", "IDLE", "inbound", NoReply, NoOutcome)
  /\ clock = NoClock
  /\ \E group, poke \in BOOLEAN : proc = [NoProc EXCEPT !.group = group, !.poke = poke]

\* a load that tests the group identifier only
LoadConfigGroupOnly ==
  /\ mainpc = "load"
  /\ IF ~proc.group
       THEN mainpc' = "exited" /\ proc' = [proc EXCEPT !.exit = 1]
       ELSE mainpc' = "start" /\ proc' = proc
  /\ UNCHANGED << state, messageBuffer, recentlySent, timers, handlers, nextId,
                  sends, call, clock >>

\* group-chat.ts is evaluated: process.exit(1) when an identifier is missing
LoadConfig ==
  /\ mainpc = "load"
  /\ IF ~proc.group \/ ~proc.poke
       THEN mainpc' = "exited" /\ proc' = [proc EXCEPT !.exit = 1]
       ELSE mainpc' = "start" /\ proc' = proc
  /\ UNCHANGED << state, messageBuffer, recentlySent, timers, handlers, nextId,
                  sends, call, clock >>

\* the process is alive and past the loading of its modules, so the SIGINT
\* handler is registered
Alive == mainpc \notin { "load", "exited" }

\* SIGINT: the handler starts and calls sdk.stopWatching()
Sigint ==
  /\ Alive
  /\ Len(proc.sigs) < MaxSignals
  /\ proc' = [proc EXCEPT !.sigs = Append(@, "stopping")]
  /\ UNCHANGED << state, messageBuffer, recentlySent, timers, mainpc, handlers,
                  nextId, sends, call, clock >>

\* a handler that calls sdk.close() without waiting for sdk.stopWatching()
SigintStopDoneEarly(i) ==
  /\ Alive
  /\ i \in DOMAIN proc.sigs
  /\ proc.sigs[i] = "stopping"
  /\ proc' = [proc EXCEPT !.sigs[i] = "closing", !.steps = Append(@, "close")]
  /\ UNCHANGED << state, messageBuffer, recentlySent, timers, mainpc, handlers,
                  nextId, sends, call, clock >>

\* sdk.stopWatching() has settled: the handler calls sdk.close()
SigintStopDone(i) ==
  /\ Alive
  /\ i \in DOMAIN proc.sigs
  /\ proc.sigs[i] = "stopping"
  /\ proc' = [proc EXCEPT !.sigs[i] = "closing", !.steps = Append(@, "stopWatching")]
  /\ UNCHANGED << state, messageBuffer, recentlySent, timers, mainpc, handlers,
                  nextId, sends, call, clock >>

\* sdk.close() has settled: process.exit(0)
SigintCloseDone(i) ==
  /\ Alive
  /\ i \in DOMAIN proc.sigs
  /\ proc.sigs[i] = "closing"
  /\ proc' = [proc EXCEPT !.steps = @ \o << "close", "exit" >>, !.exit = 0]
  /\ mainpc' = "exited"
  /\ UNCHANGED << state, messageBuffer, recentlySent, timers, handlers,
                  nextId, sends, call, clock >>

\* the subscription delivers an event, until a stopWatching has settled
DeliverLife(msg) ==
  /\ proc.steps = << >>
  /\ DeliverWithin(msg, MaxLifeEvents, 1)

NextLife ==
  \/ LoadConfig
  \/ Sigint
  \/ \E i \in DOMAIN proc.sigs : SigintStopDone(i)
  \/ \E i \in DOMAIN proc.sigs : SigintCloseDone(i)
  \/ \E msg \in Messages(sends) : DeliverLife(msg)
  \/ Routing

SpecLife == InitLife /\ [][NextLife]_vars

-----------------------------------------------------------------------------
(* The loop guard alone, with time.  Time advances in steps of half the     *)
(* expiry delay; a timer runs when its delay has elapsed, before the clock  *)
(* moves on, and timers of one delay run in the order they were armed.      *)

\* texts given to markAsSent and wasSentByUs: one of 101 characters, one
\* that differs from it in the 101st only, a short one, the short one with
\* white space around it, and another short one
HundredX == [i \in 1..FINGERPRINT_LEN |-> "x"]
GuardTexts ==
  { HundredX \o << "a" >>, HundredX \o << "b" >>, << "h", "i" >>,
    << " ", "h", "i", "\n" >>, << "h", "o" >> }

\* markAsSent(text) at the current time
GMarkAsSent(text) ==
  /\ Cardinality(clock.marks) < MaxMarks
  /\ recentlySent' = MarkAsSent(recentlySent, text)
  /\ timers' = ArmTimer(timers, text)
  /\ clock' = [clock EXCEPT
       !.due = Append(@, clock.now + EXPIRY_MS),
       !.marks = @ \cup { [key |-> Slice(Trim(text), FINGERPRINT_LEN),
                           at |-> clock.now, nth |-> Cardinality(@) + 1,
                           text |-> text] },
       !.op = "markAsSent",
       !.text = text]
  /\ UNCHANGED << state, messageBuffer, mainpc, handlers, nextId, sends, call, proc >>

\* the oldest timer runs, once its delay has elapsed
GTimerFire ==
  /\ timers # << >>
  /\ Head(clock.due) <= clock.now
  /\ recentlySent' = Expire(recentlySent, Head(timers))
  /\ timers' = Tail(timers)
  /\ clock' = [clock EXCEPT !.due = Tail(@), !.op = "timer", !.text = Null]
  /\ UNCHANGED << state, messageBuffer, mainpc, handlers, nextId, sends, call, proc >>

\* time passes: no timer is left waiting past its delay
GTick ==
  /\ clock.now < MaxTicks * (EXPIRY_MS \div 2)
  /\ \A i \in 1..Len(clock.due) : clock.due[i] > clock.now
  /\ clock' = [clock EXCEPT
       !.now = @ + (EXPIRY_MS \div 2), !.op = "tick", !.text = Null]
  /\ UNCHANGED << state, messageBuffer, recentlySent, timers, mainpc, handlers,
                  nextId, sends, call, proc >>

NextGuard ==
  \/ \E text \in GuardTexts : GMarkAsSent(text)
  \/ GTimerFire
  \/ GTick

SpecGuard == Init /\ [][NextGuard]_vars

-----------------------------------------------------------------------------
(* Properties of the LLMJudge, checked under SpecJudge *)

RecognizedReturn(outcome) ==
  outcome.kind = "return" /\ outcome.value \in JudgeActions

\* the six cells of the transition table: state, action, next state
TableCells ==
  { << "IDLE", "FORWARD", "PLANNING" >>,
    << "IDLE", "IGNORE", "IDLE" >>,
    << "IDLE", "CONCLUDE", "IDLE" >>,
    << "PLANNING", "FORWARD", "PLANNING" >>,
    << "PLANNING", "IGNORE", "PLANNING" >>,
    << "PLANNING", "CONCLUDE", "IDLE" >> }

\* C1: after applyTransition(a), and after a classify whose oracle answer is
\* a, started in state s, the state is the value the table gives for (s, a):
\* IDLE+FORWARD -> PLANNING, PLANNING+CONCLUDE -> IDLE, every other cell
\* (CONCLUDE while IDLE included) leaves s unchanged; in every reachable
\* state, so after any sequence of calls.
C1_TransitionTable ==
  (call.op \in { "classify", "applyTransition" } /\ RecognizedReturn(call.outcome))
    => << call.pre, call.outcome.value, state >> \in TableCells

C1_Witness ==
  /\ call.op = "classify"
  /\ call.pre = "PLANNING"
  /\ call.outcome = Returned("CONCLUDE")
  /\ state = "IDLE"

\* C7: classify fails with an error whenever the oracle's response does not
\* yield one of FORWARD, IGNORE, CONCLUDE: a classify that returns, returns a
\* recognized action.
C7_ClassifyFailsClosed ==
  (call.op = "classify" /\ call.outcome.kind = "return")
    => call.outcome.value \in JudgeActions

\* C8: whenever a classify call does not return a recognized action (the
\* transport fails, the response is unparseable, or the action value is not
\* recognized), the state after the call is the state before it.
C8_FailureKeepsState ==
  (call.op = "classify" /\ ~RecognizedReturn(call.outcome))
    => state = call.pre

C8_Witness ==
  /\ call.op = "classify"
  /\ call.pre = "PLANNING"
  /\ call.outcome = Thrown("unparseable")
  /\ state = "PLANNING"

-----------------------------------------------------------------------------
(* Properties of the router *)

SendsBy(h) == { i \in 1..Len(sends) : sends[i].by = h }

\* invocation h went from waiting for the oracle to holding action a
ClassifiedAs(h, a) ==
  /\ h \in DOMAIN handlers
  /\ h \in DOMAIN handlers'
  /\ handlers[h].pc = "awaitLLM"
  /\ handlers'[h].pc = "classified"
  /\ handlers'[h].outcome = Returned(a)

\* invocation h, holding action a, went on after `await judge.classify`
ResumedWith(h, a) ==
  /\ h \in DOMAIN handlers
  /\ h \in DOMAIN handlers'
  /\ handlers[h].pc = "classified"
  /\ handlers'[h].pc # "classified"
  /\ handlers[h].outcome = Returned(a)

\* C2: a group message is sent to the agent only if the oracle's response
\* for it yielded FORWARD or CONCLUDE: an invocation whose classification is
\* an error, or a parsed object whose action is missing or unrecognized,
\* performs no send.
C2_ForwardOnlyOnAction ==
  \A i \in 1..Len(sends) :
    (sends[i].by \in DOMAIN handlers /\ handlers[sends[i].by].route = "group")
      => handlers[sends[i].by].outcome \in
           { Returned("FORWARD"), Returned("CONCLUDE") }

\* C3: when the agent channel delivers a non-echo text while the state is
\* PLANNING (the oracle answering CONCLUDE for it as an outbound message),
\* once the event is handled the text has been relayed verbatim to the group
\* exactly once and the state is IDLE.
C3_OutboundConclude ==
  \A h \in DOMAIN handlers :
    (handlers[h].route = "poke" /\ handlers[h].entryState = "PLANNING"
       /\ handlers[h].pc = "returned")
      => /\ Cardinality(SendsBy(h)) = 1
         /\ \A i \in SendsBy(h) :
              sends[i].to = GroupSendId /\ sends[i].text = handlers[h].msg.text
         /\ state = "IDLE"

\* C4: an event on the agent channel, not from self, whose text has the
\* fingerprint of a text passed to markAsSent whose timer has not fired yet,
\* is dropped: it causes no send.
C4_PendingEchoDropped ==
  [][\A msg \in Messages(sends) :
       ( /\ DeliverSerial(msg)
         /\ IsPokeDM(msg.chatId)
         /\ ~msg.isFromMe
         /\ ~IsBlank(msg.text)
         /\ \E i \in 1..Len(timers) : timers[i] = Fingerprint(msg.text) )
         => sends' = sends]_vars

\* C5: for a non-blank group message not from self that the oracle answers
\* FORWARD, the state is PLANNING when classify returns, and the router
\* issues exactly one send, to the agent, whose text contains the rendered
\* transcript and the text of the triggering message.
C5_ForwardOnce ==
  /\ [][\A h \in DOMAIN handlers :
          ClassifiedAs(h, "FORWARD") => state' = "PLANNING"]_vars
  /\ [][\A h \in DOMAIN handlers :
          ResumedWith(h, "FORWARD") =>
            \E text \in { PokeMessage(messageBuffer, handlers[h].msg) } :
              /\ sends' = Append(sends, [to |-> PokeSendId, text |-> text,
                                         by |-> h, marked |-> TRUE])
              /\ Includes(text, Transcript(messageBuffer))
              /\ Includes(text, handlers[h].msg.text)
              /\ Includes(Transcript(messageBuffer), RenderEntry(handlers[h].msg))]_vars
  /\ [](\A h \in DOMAIN handlers :
          (handlers[h].route = "group" /\ handlers[h].outcome = Returned("FORWARD"))
            => Cardinality(SendsBy(h)) =
                 IF handlers[h].pc \in { "awaitLLM", "classified" } THEN 0 ELSE 1)

C5_Witness ==
  \E h \in DOMAIN handlers :
    /\ handlers[h].route = "group"
    /\ handlers[h].outcome = Returned("FORWARD")
    /\ handlers[h].pc = "returned"
    /\ Cardinality(SendsBy(h)) = 1
    /\ state = "PLANNING"

\* C6: for a group message that the oracle answers IGNORE, the router
\* performs no send to any channel, and the state is the same after the
\* classification as before it.
C6_IgnoreIsSilent ==
  /\ [][\A h \in DOMAIN handlers :
          ClassifiedAs(h, "IGNORE") => (state' = state /\ sends' = sends)]_vars
  /\ [][\A h \in DOMAIN handlers :
          ResumedWith(h, "IGNORE") =>
            (handlers'[h].pc = "returned" /\ sends' = sends /\ state' = state)]_vars
  /\ [](\A h \in DOMAIN handlers :
          handlers[h].outcome = Returned("IGNORE") => SendsBy(h) = {})

C6_Witness ==
  \E h \in DOMAIN handlers :
    /\ handlers[h].route = "group"
    /\ handlers[h].outcome = Returned("IGNORE")
    /\ handlers[h].pc = "returned"
    /\ handlers[h].entryState = "PLANNING"
    /\ state = "PLANNING"
    /\ SendsBy(h) = {}

\* C9: at most one inbound event is being handled at any time: no second
\* handleMessage invocation starts while one is suspended at an await.
C9_OneAtATime == Cardinality(LiveHandlers) <= 1

\* C10: for every send the router issues (the forward to the agent, the
\* relay to the group, the system prompt at startup) the fingerprint of the
\* text is in recentlySent when sdk.send is called.  Registration and call
\* are in one synchronous stretch of code, so nothing runs between them.
C10_MarkedBeforeSend ==
  \A i \in 1..Len(sends) : sends[i].marked

C10_Witness ==
  \E i, j, k \in 1..Len(sends) :
    /\ sends[i].by = 0 /\ sends[i].text = SYSTEM_PROMPT
    /\ sends[j].by > 0 /\ sends[j].to = PokeSendId
    /\ sends[k].by > 0 /\ sends[k].to = GroupSendId

-----------------------------------------------------------------------------
(* Properties of the prompt and of the parsing, checked under SpecJudge *)

\* piece b comes right after piece a in the prompt
Follows(prompt, a, b) ==
  \E i \in 1..(Len(prompt) - 1) : prompt[i] = a /\ prompt[i + 1] = b

\* the places of a response where an object {"action": a} with a recognized
\* a starts
ActionObjects(raw) ==
  { i \in 1..(Len(raw) - 2) :
      /\ raw[i] = "{"
      /\ raw[i + 1] \in { "action:FORWARD", "action:IGNORE", "action:CONCLUDE" }
      /\ raw[i + 2] = "}" }

\* the action of the object at place i
ActionAt(raw, i) ==
  CASE raw[i + 1] = "action:FORWARD" -> "FORWARD"
    [] raw[i + 1] = "action:IGNORE" -> "IGNORE"
    [] raw[i + 1] = "action:CONCLUDE" -> "CONCLUDE"

\* C17: in every classify(message, direction) the prompt given to the oracle
\* holds the given direction and the state the judge was in when the call
\* started, and when the oracle answers with an object {"action": a} with a
\* recognized a, alone or after prose without braces, classify returns a.
C17_PromptAndReturn ==
  call.op = "classify" =>
    /\ Follows(call.prompt, "DIRECTION: ", call.direction)
    /\ Follows(call.prompt, "\nSTATE: ", call.pre)
    /\ \A i \in ActionObjects(call.reply.raw) :
         (call.reply.ok /\ \A j \in 1..(i - 1) : call.reply.raw[j] = "prose")
           => call.outcome = [kind |-> "return", value |-> ActionAt(call.reply.raw, i)]

C17_Witness ==
  /\ call.op = "classify"
  /\ call.direction = "outbound"
  /\ call.pre = "PLANNING"
  /\ call.reply.raw = << "prose", "{", "action:CONCLUDE", "}" >>
  /\ call.outcome = [kind |-> "return", value |-> "CONCLUDE"]
  /\ state = "IDLE"

\* C18: for every response that holds an object {"action": a} with a
\* recognized a among prose and formatting, braces in the prose included,
\* classify returns the action of the first such object.
C18_FirstActionObject ==
  (call.op = "classify" /\ call.reply.ok /\ ActionObjects(call.reply.raw) # {})
    => \E i \in ActionObjects(call.reply.raw) :
         /\ \A j \in ActionObjects(call.reply.raw) : i <= j
         /\ call.outcome = [kind |-> "return", value |-> ActionAt(call.reply.raw, i)]

\* C22: applyTransition is idempotent: applying an action again right after
\* it was applied leaves the state where the first application put it; so
\* FORWARD repeated in PLANNING stays PLANNING and CONCLUDE repeated in IDLE
\* stays IDLE.
C22_TransitionIdempotent ==
  [][(/\ call.op = "applyTransition"
      /\ call'.op = "applyTransition"
      /\ call'.outcome = call.outcome) => state' = state]_vars

C22_Witness ==
  /\ call.op = "applyTransition"
  /\ call.outcome = [kind |-> "return", value |-> "FORWARD"]
  /\ call.pre = "PLANNING"
  /\ state = "PLANNING"

\* C23: a judge that was just constructed is in IDLE, and the state is at
\* all times one of IDLE and PLANNING.
C23_StartsIdle ==
  /\ state \in { "IDLE", "PLANNING" }
  /\ call.op = "new" => state = "IDLE"

C23_Witness ==
  /\ call.op = "new"
  /\ state = "IDLE"
  /\ call.reply.raw = << "{", "action:FORWARD", "}" >>

-----------------------------------------------------------------------------
(* Properties of the loop guard, checked under SpecGuard *)

\* the time of the latest markAsSent of a text with fingerprint key
LastMarkAt(key) ==
  LET at == { m.at : m \in { m \in clock.marks : m.key = key } }
  IN  CHOOSE t \in at : \A u \in at : u <= t

MarkedKeys == { m.key : m \in clock.marks }

\* trim and truncation as the claims state them: white space off both ends,
\* then the first 100 characters
StatedFingerprint(text) ==
  LET ink == { i \in 1..Len(text) : text[i] \notin { " ", "\n", "\t" } }
  IN  IF ink = {} THEN << >>
      ELSE LET first == CHOOSE i \in ink : \A j \in ink : i <= j
               last == CHOOSE i \in ink : \A j \in ink : j <= i
               body == SubSeq(text, first, last)
           IN  SubSeq(body, 1, IF Len(body) < 100 THEN Len(body) ELSE 100)

\* C11: wasSentByUs(x) right after markAsSent(x) is true; once more than the
\* expiry delay has passed since the latest markAsSent of a fingerprint,
\* wasSentByUs is false for it at every later time; and a fingerprint enters
\* the set through markAsSent only.
C11_MarkThenExpire ==
  /\ [](clock.op = "markAsSent" => WasSentByUs(recentlySent, clock.text))
  /\ [](\A text \in GuardTexts :
          (/\ StatedFingerprint(text) \in MarkedKeys
           /\ clock.now > LastMarkAt(StatedFingerprint(text)) + 10000)
            => ~WasSentByUs(recentlySent, text))
  /\ [][\A key \in recentlySent' \ recentlySent :
          clock'.op = "markAsSent" /\ key = StatedFingerprint(clock'.text)]_vars

\* C26: whatever the sequence of markAsSent calls and timer firings,
\* wasSentByUs(x) is true at every moment less than 10 s after the latest
\* markAsSent of a text with the fingerprint of x, also when an earlier
\* markAsSent of that fingerprint has its timer still pending.
C26_RemarkExtends ==
  \A text \in GuardTexts :
    (/\ StatedFingerprint(text) \in MarkedKeys
     /\ clock.now < LastMarkAt(StatedFingerprint(text)) + 10000)
      => WasSentByUs(recentlySent, text)

\* C27: while the fingerprint of the one text x that was marked is unexpired,
\* wasSentByUs(y) is true exactly when the first 100 characters of trimmed y
\* are the first 100 characters of trimmed x: white space at the ends and
\* characters after the 100th make no difference.
C27_SameFingerprint ==
  \A m \in clock.marks :
    (clock.marks = { m } /\ timers # << >>) =>
      \A y \in GuardTexts :
        WasSentByUs(recentlySent, y)
          <=> StatedFingerprint(y) = StatedFingerprint(m.text)

C27_Witness ==
  /\ \E m \in clock.marks : clock.marks = { m } /\ m.text = << " ", "h", "i", "\n" >>
  /\ timers # << >>
  /\ clock.now = 5000
  /\ WasSentByUs(recentlySent, << "h", "i" >>)
  /\ ~WasSentByUs(recentlySent, << "h", "o" >>)

C11_Witness ==
  \E m \in clock.marks :
    /\ clock.now > m.at + 10000
    /\ m.at = LastMarkAt(m.key)
    /\ m.key \notin recentlySent
    /\ Cardinality({ n \in clock.marks : n.key = m.key }) = 2

-----------------------------------------------------------------------------
(* Properties of the message buffer, checked under SpecBuffer *)

\* the number of group messages accepted so far
Accepted == nextId - 1

\* the texts of the last k accepted messages, oldest first
LastAccepted(k) == [i \in 1..k |-> [j \in 1..(Accepted - k + i) |-> "x"]]

\* C12: once a group message is accepted and the eviction has run, the
\* buffer holds at most 20 entries, and they are the last min(n, 20)
\* accepted messages in the order of their arrival.
C12_BufferKeepsLastTwenty ==
  LET kept == IF Accepted < 20 THEN Accepted ELSE 20
  IN  /\ Len(messageBuffer) <= 20
      /\ Len(messageBuffer) = kept
      /\ [i \in 1..kept |-> messageBuffer[i].text] = LastAccepted(kept)

C12_Witness ==
  /\ Accepted = 25
  /\ Len(messageBuffer) = 20
  /\ messageBuffer[1].text = [j \in 1..6 |-> "x"]
  /\ messageBuffer[20].text = [j \in 1..25 |-> "x"]

-----------------------------------------------------------------------------
(* Properties of the routing of one event, checked under Spec *)

\* the text is null, empty, or made of white space only
StatedBlank(text) ==
  \/ text = Null
  \/ \A i \in 1..Len(text) : text[i] \in { " ", "\n", "\t" }

\* C13: an event on the agent's channel that is not blank, not written by
\* ourselves and not recognized as an echo causes exactly one send, to the
\* group channel, and the text sent is the text of the event, unmodified.
C13_RelayVerbatim ==
  /\ [][\A msg \in Messages(sends) :
          ( /\ Deliver(msg)
            /\ msg.chatId = PokeDMChat
            /\ ~StatedBlank(msg.text)
            /\ ~msg.isFromMe
            /\ ~WasSentByUs(recentlySent, msg.text) )
          => /\ Len(sends') = Len(sends) + 1
             /\ sends'[Len(sends')].to = GroupSendId
             /\ sends'[Len(sends')].text = msg.text
             /\ sends'[Len(sends')].by = nextId]_vars
  /\ [](\A h \in DOMAIN handlers :
          handlers[h].route = "poke" =>
            /\ Cardinality(SendsBy(h)) = 1
            /\ \A i \in SendsBy(h) :
                 sends[i].to = GroupSendId /\ sends[i].text = handlers[h].msg.text)

C13_Witness ==
  \E h \in DOMAIN handlers :
    /\ handlers[h].route = "poke"
    /\ handlers[h].msg.chatId = PokeDMChat
    /\ handlers[h].pc = "returned"
    /\ Cardinality(SendsBy(h)) = 1
    /\ \A i \in SendsBy(h) : sends[i].text = LongText


\* the step sends nothing, starts no oracle call, registers nothing with
\* the loop guard, and leaves the buffer and the conversation state alone
NoEffect ==
  /\ sends' = sends
  /\ recentlySent' = recentlySent
  /\ timers' = timers
  /\ messageBuffer' = messageBuffer
  /\ state' = state
  /\ \A h \in DOMAIN handlers' :
       handlers'[h].pc \in Live => (h \in DOMAIN handlers /\ handlers[h] = handlers'[h])

\* an invocation with this route returned at once
DroppedAs(route) ==
  \E h \in DOMAIN handlers :
    /\ handlers[h].route = route
    /\ handlers[h].pc = "returned"
    /\ SendsBy(h) = {}

\* C14: an event whose text is null, empty or only white space is dropped on
\* every channel: no send, no oracle call, no registration with the loop
\* guard, and the buffer and the conversation state are unchanged.
C14_BlankDropped ==
  [][\A msg \in Messages(sends) :
       (Deliver(msg) /\ StatedBlank(msg.text)) => NoEffect]_vars

C14_Witness == DroppedAs("blank") /\ messageBuffer # << >>

\* C15: an event with isFromMe = true is dropped, whichever channel it came
\* on and whatever its text: no send, no oracle call, no registration with
\* the loop guard, and the buffer and the conversation state are unchanged.
C15_SelfDropped ==
  [][\A msg \in Messages(sends) :
       (Deliver(msg) /\ msg.isFromMe) => NoEffect]_vars

C15_Witness == DroppedAs("self") /\ state = "PLANNING"


\* C16: an event whose channel is neither the group chat nor the direct chat
\* with the agent is dropped: no send, no oracle call, and the buffer, the
\* loop guard and the conversation state are unchanged.
C16_OtherChannelDropped ==
  [][\A msg \in Messages(sends) :
       (Deliver(msg) /\ msg.chatId \notin { GROUP_CHAT_ID, PokeDMChat })
         => NoEffect]_vars


\* invocation h has called classify
Classifies(h) ==
  handlers[h].pc \in { "awaitLLM", "classified" } \/ handlers[h].outcome # NoOutcome

\* C19: the router never calls classify with direction outbound while the
\* state is IDLE: it calls classify for group messages only, with direction
\* inbound, and a message of the agent is relayed without a classification.
C19_NoOutboundWhileIdle ==
  \A h \in DOMAIN handlers :
    /\ Classifies(h) =>
         ~(handlers[h].direction = "outbound" /\ handlers[h].entryState = "IDLE")
    /\ handlers[h].route # "group" => ~Classifies(h)

C19_Witness ==
  \E g, p \in DOMAIN handlers :
    /\ handlers[g].route = "group" /\ handlers[g].pc = "awaitLLM"
    /\ handlers[g].entryState = "IDLE"
    /\ handlers[p].route = "poke" /\ handlers[p].pc = "awaitSend"
    /\ state = "IDLE"

\* C20: an event causes at most one send attempt.  A step issues at most one
\* send, and only for an invocation that has issued none before; when
\* sdk.send fails the invocation ends rejected without a further send; so no
\* two sends ever belong to one event.
C20_NoRetry ==
  /\ [][\/ sends' = sends
        \/ /\ Len(sends') = Len(sends) + 1
           /\ SubSeq(sends', 1, Len(sends)) = sends
           /\ \A i \in 1..Len(sends) : sends[i].by # sends'[Len(sends')].by]_vars
  /\ [][\A h \in DOMAIN handlers :
          (handlers[h].pc = "awaitSend" /\ handlers' # handlers
             /\ h \in DOMAIN handlers' /\ handlers'[h].pc # "awaitSend")
          => /\ handlers'[h].pc \in { "returned", "rejected" }
             /\ sends' = sends]_vars
  /\ [](\A h \in DOMAIN handlers :
          handlers[h].pc = "rejected" => Cardinality(SendsBy(h)) <= 1)

C20_Witness ==
  \E h \in DOMAIN handlers :
    /\ handlers[h].pc = "rejected"
    /\ handlers[h].outcome.kind # "throw"
    /\ Cardinality(SendsBy(h)) = 1
    /\ \E i \in 1..Len(sends) : sends[i].by > 0 /\ sends[i].by < h


\* the oracle call of invocation h fails in this step
OracleFails(h) ==
  /\ h \in DOMAIN handlers /\ h \in DOMAIN handlers'
  /\ handlers[h].pc = "awaitLLM"
  /\ handlers'[h].pc = "rejected"

NoNewClassify ==
  \A h \in DOMAIN handlers' :
    handlers'[h].pc = "awaitLLM" => (h \in DOMAIN handlers /\ handlers[h].pc = "awaitLLM")

\* C28: an event whose text has a fingerprint that is in recentlySent when
\* it arrives is dropped without a send on whichever channel it arrives; on
\* the group channel with isFromMe = false it is not classified either.
C28_RecordedTextDropped ==
  [][\A msg \in Messages(sends) :
       ( /\ Deliver(msg)
         /\ ~StatedBlank(msg.text)
         /\ StatedFingerprint(msg.text) \in recentlySent )
       => (sends' = sends /\ NoNewClassify)]_vars

\* the entry of the buffer for a message
EntryOf(msg) == [sender |-> msg.sender, text |-> msg.text]

\* C29: a group message that is not blank and not our own is appended to the
\* buffer before the oracle is asked, and it stays recorded whatever the
\* classification gives: FORWARD, IGNORE, CONCLUDE or a failure.
C29_RecordedBeforeClassify ==
  /\ [][\A msg \in Messages(sends) :
          ( /\ Deliver(msg)
            /\ msg.chatId = GROUP_CHAT_ID
            /\ ~StatedBlank(msg.text)
            /\ ~msg.isFromMe )
          => /\ messageBuffer' = Append(messageBuffer, EntryOf(msg))
             /\ handlers'[nextId].pc = "awaitLLM"
             /\ handlers'[nextId].outcome = NoOutcome]_vars
  /\ [](\A h \in DOMAIN handlers :
          handlers[h].route = "group" =>
            \E i \in 1..Len(messageBuffer) : messageBuffer[i] = EntryOf(handlers[h].msg))

C29_Witness ==
  \E h \in DOMAIN handlers :
    /\ handlers[h].route = "group"
    /\ handlers[h].pc = "rejected"
    /\ handlers[h].outcome.kind = "throw"
    /\ messageBuffer[Len(messageBuffer)] = EntryOf(handlers[h].msg)
    /\ Len(messageBuffer) = 2

\* C30: handling an event of the agent's channel leaves the buffer as it
\* is: the buffer changes only when a group-channel event is delivered, by
\* the entry of that event.
C30_BufferOnlyFromGroup ==
  /\ [][\A msg \in Messages(sends) :
          (Deliver(msg) /\ msg.chatId = PokeDMChat)
            => messageBuffer' = messageBuffer]_vars
  /\ [][messageBuffer' # messageBuffer =>
          \E msg \in Messages(sends) :
            /\ msg.chatId = GROUP_CHAT_ID
            /\ Deliver(msg)
            /\ messageBuffer' = Append(messageBuffer, EntryOf(msg))]_vars

C30_Witness ==
  \E h \in DOMAIN handlers :
    /\ handlers[h].route = "poke"
    /\ handlers[h].pc = "returned"
    /\ Len(messageBuffer) = 1
    /\ messageBuffer[1] # EntryOf(handlers[h].msg)


\* the chat a destination of sdk.send stands for: the group chat for its
\* chat guid, the direct chat with a contact for the contact's address
ChatOf(to) ==
  IF to = << "i", "M", "e", "s", "s", "a", "g", "e", ";", "+", ";" >> \o GROUP_CHAT_ID
    THEN GROUP_CHAT_ID
    ELSE << "i", "M", "e", "s", "s", "a", "g", "e", ";", "-", ";" >> \o to

\* C31: no event causes a send to the chat it arrived on: a send caused by
\* an event of the group chat goes to the agent, and a send caused by an
\* event of the agent's chat goes to the group chat.
C31_NeverBackToSource ==
  \A h \in DOMAIN handlers :
    \A i \in SendsBy(h) :
      /\ ChatOf(sends[i].to) # handlers[h].msg.chatId
      /\ handlers[h].msg.chatId = GROUP_CHAT_ID => ChatOf(sends[i].to) = PokeDMChat
      /\ handlers[h].msg.chatId = PokeDMChat => ChatOf(sends[i].to) = GROUP_CHAT_ID

C31_Witness ==
  \E g, p \in DOMAIN handlers :
    /\ handlers[g].msg.chatId = GROUP_CHAT_ID
    /\ handlers[p].msg.chatId = PokeDMChat
    /\ SendsBy(g) # {}
    /\ SendsBy(p) # {}


\* invocation h goes on after classify and issues its forward in this step
Forwards(h) ==
  /\ h \in DOMAIN handlers
  /\ h \in DOMAIN handlers'
  /\ handlers[h].pc = "classified"
  /\ handlers'[h].pc = "awaitSend"
  /\ Len(sends') = Len(sends) + 1

\* C32: in every message forwarded to the agent the last entry of the
\* transcript is the message that triggered the forward, also when other
\* group messages arrive while its oracle call is pending.
C32_TranscriptEndsWithTrigger ==
  [][\A h \in DOMAIN handlers :
       Forwards(h) =>
         /\ messageBuffer # << >>
         /\ messageBuffer[Len(messageBuffer)] = EntryOf(handlers[h].msg)]_vars

\* C33: the state to which a classify call applies its transition is the
\* state that was put in the prompt of that call: no other classify call
\* changes the state between the two.
C33_TransitionOnPromptState ==
  [][\A h \in DOMAIN handlers :
       ( /\ handlers[h].pc = "awaitLLM"
         /\ h \in DOMAIN handlers'
         /\ handlers'[h].pc # "awaitLLM" )
       => state = handlers[h].entryState]_vars

\* C34: when the router forwards a group message to the agent, the state is
\* PLANNING at the moment the send is issued, for the answer FORWARD and for
\* the answer CONCLUDE alike: nothing is forwarded while the state is IDLE.
C34_ForwardOnlyWhilePlanning ==
  [][\A h \in DOMAIN handlers :
       (Forwards(h) /\ handlers[h].outcome.value \in { "FORWARD", "CONCLUDE" })
         => state = "PLANNING"]_vars

-----------------------------------------------------------------------------
(* Properties of startup and shutdown, checked under SpecLife *)

\* the places of a shutdown step among the steps done
StepsAt(name) == { i \in 1..Len(proc.steps) : proc.steps[i] = name }

\* C24: on an interrupt the subscription is stopped, then the adapter is
\* released, then the process exits: when the process has exited on an
\* interrupt, a stopWatching was completed before a close was completed, and
\* the exit came after both and is the last step.
C24_ShutdownOrder ==
  /\ proc.exit = 0 =>
       /\ \E i \in StepsAt("stopWatching"), j \in StepsAt("close") : i < j
       /\ StepsAt("exit") = { Len(proc.steps) }
       /\ mainpc = "exited"
  /\ StepsAt("exit") # {} => proc.exit = 0
  /\ \A j \in StepsAt("close") : \E i \in StepsAt("stopWatching") : i < j

C24_Witness ==
  /\ proc.exit = 0
  /\ proc.steps = << "stopWatching", "stopWatching", "close", "exit" >>
  /\ \E h \in DOMAIN handlers : handlers[h].pc = "awaitLLM"

\* C25: when the group identifier or the agent's contact identifier is not
\* set, the process exits with status 1 before the subscription is started:
\* no event is ever handled and no send is ever issued.
C25_MissingConfigExits ==
  (~proc.group \/ ~proc.poke) =>
    /\ mainpc \in { "load", "exited" }
    /\ mainpc = "exited" => proc.exit = 1
    /\ sends = << >>
    /\ handlers = << >>
    /\ nextId = 1
    /\ messageBuffer = << >>
    /\ recentlySent = {}

C25_Witness ==
  /\ ~proc.poke
  /\ proc.group
  /\ mainpc = "exited"
  /\ proc.exit = 1

-----------------------------------------------------------------------------
(* Progress of the router, checked under SpecFair *)

\* invocation h handles a group message that the oracle answered FORWARD
ForwardDue(h) ==
  /\ h \in DOMAIN handlers
  /\ handlers[h].msg.chatId = GROUP_CHAT_ID
  /\ ~StatedBlank(handlers[h].msg.text)
  /\ ~handlers[h].msg.isFromMe
  /\ handlers[h].outcome = [kind |-> "return", value |-> "FORWARD"]

\* invocation h handles a reply of the agent that is not blank, not our own
\* and was not recognized as an echo
RelayDue(h) ==
  /\ h \in DOMAIN handlers
  /\ handlers[h].msg.chatId = PokeDMChat
  /\ ~StatedBlank(handlers[h].msg.text)
  /\ ~handlers[h].msg.isFromMe
  /\ handlers[h].route # "echo"

\* the send of invocation h to chat `to` has completed
SentTo(h, to) ==
  /\ h \in DOMAIN handlers
  /\ handlers[h].pc = "returned"
  /\ \E i \in SendsBy(h) :
       /\ ChatOf(sends[i].to) = to
       /\ Includes(sends[i].text, handlers[h].msg.text)

\* C35: when the oracle answers and sends complete, every group message that
\* is not blank, not our own and answered FORWARD is eventually sent to the
\* agent, and every reply of the agent that is not blank, not our own and
\* not an echo is eventually relayed to the group.
C35_EventuallyDelivered ==
  \A h \in 1..MaxEvents :
    /\ ForwardDue(h) ~> SentTo(h, PokeDMChat)
    /\ RelayDue(h) ~> SentTo(h, GROUP_CHAT_ID)

C35_Witness ==
  \E g, p \in DOMAIN handlers :
    /\ ForwardDue(g)
    /\ SentTo(g, PokeDMChat)
    /\ RelayDue(p)
    /\ handlers[p].pc = "awaitSend"

====
